---- MODULE Spec2Model ----
(***************************************************************************)
(* Crash-report data lab: the audit engine (modules/data_audit.py), the    *)
(* cleaning operations (modules/cleaning.py) and the Cleaning Lab page     *)
(* that threads a working table and a history through them (app.py).       *)
(*                                                                         *)
(* A table is [cols, dtype, rows]: the ordered column names, the pandas    *)
(* dtype of every column and the rows in order, each row a function from   *)
(* column name to cell.  A cell is a record [k, n, d]:                     *)
(*   k = "null"  the missing marker (NaN / None / NaT)                     *)
(*   k = "num"   the number n/d, d > 0, in lowest terms                    *)
(*   k = "text"  the identifier string number n                            *)
(*   k = "str"   a string holding a date: day n when d = 1, malformed      *)
(*               (unparseable) when d = 0                                  *)
(*   k = "dt"    a timestamp: day n since the epoch plus d nanoseconds     *)
(* Arithmetic on numbers is exact (rationals) where pandas uses float64.   *)
(***************************************************************************)
EXTENDS Integers, Sequences, FiniteSets, TLC

\* ------------------------------------------------------------------ bounds
MaxRows == 3

\* ------------------------------------------------------- cells and numbers
Null == [k |-> "null", n |-> 0, d |-> 1]

RECURSIVE GCD(_, _)
GCD(a, b) == IF b = 0 THEN a ELSE GCD(b, a % b)

Abs(x) == IF x < 0 THEN 0 - x ELSE x

Rat(p, q) ==
    LET g == GCD(Abs(p), Abs(q))
        s == IF q < 0 THEN 0 - 1 ELSE 1
    IN  [k |-> "num", n |-> (s * p) \div g, d |-> (s * q) \div g]

Num(x) == [k |-> "num", n |-> x, d |-> 1]

Txt(i) == [k |-> "text", n |-> i, d |-> 1]

DateStr(day) == [k |-> "str", n |-> day, d |-> 1]

BadStr == [k |-> "str", n |-> 0, d |-> 0]

Dt(day, ns) == [k |-> "dt", n |-> day, d |-> ns]

RatAdd(a, b) == Rat(a.n * b.d + b.n * a.d, a.d * b.d)

RatSub(a, b) == Rat(a.n * b.d - b.n * a.d, a.d * b.d)

RatMul(a, b) == Rat(a.n * b.n, a.d * b.d)

RatLess(a, b) == a.n * b.d < b.n * a.d

isna(c) == c.k = "null"

Min(a, b) == IF a < b THEN a ELSE b

Max(a, b) == IF a > b THEN a ELSE b

\* the order pandas sorts the values of one column in
CellLess(a, b) ==
    IF a.k = "num" /\ b.k = "num" THEN RatLess(a, b)
    ELSE IF a.n # b.n THEN a.n < b.n ELSE a.d < b.d

\* ------------------------------------------------------------------ tables
RN == "Report Number"

CD == "Crash Date/Time"

VY == "Vehicle Year"

ColSet(df) == {df.cols[i] : i \in 1..Len(df.cols)}

HasCol(df, col) == col \in ColSet(df)

len(df) == Len(df.rows)

Column(df, col) == [i \in 1..len(df) |-> df.rows[i][col]]

RECURSIVE SumSeq(_)
SumSeq(s) == IF s = <<>> THEN 0 ELSE Head(s) + SumSeq(Tail(s))

\* df[column].isna().sum()
isna_sum(df, col) == Cardinality({i \in 1..len(df) : isna(df.rows[i][col])})

\* the non-null values of a column, in row order
NonNull(df, col) == SelectSeq(Column(df, col), LAMBDA c : ~isna(c))

\* the k-th smallest element (1-based) of a non-empty sequence of cells
Kth(xs, k) ==
    LET i == CHOOSE i \in 1..Len(xs) :
                 /\ Cardinality({j \in 1..Len(xs) : CellLess(xs[j], xs[i])}) < k
                 /\ k <= Cardinality({j \in 1..Len(xs) : ~CellLess(xs[i], xs[j])})
    IN  xs[i]

\* Series.quantile(num/4) with linear interpolation over the non-null values;
\* NaN (Null) when there are none
quantile(xs, num) ==
    IF xs = <<>> THEN Null
    ELSE LET m    == Len(xs)
             lo   == ((m - 1) * num) \div 4
             frac == Rat(((m - 1) * num) % 4, 4)
             a    == Kth(xs, lo + 1)
             b    == IF lo + 2 <= m THEN Kth(xs, lo + 2) ELSE a
         IN  RatAdd(a, RatMul(frac, RatSub(b, a)))

\* ------------------------------------------------------------ the clock
\* datetime.now(): the current day (the instant lies inside that day)
NowDay == 200

\* datetime.now().year
current_year == 2026

\* pd.to_datetime(value, errors='coerce') on one cell
to_datetime(c) ==
    CASE c.k = "dt"  -> c
      [] c.k = "str" -> IF c.d = 1 THEN Dt(c.n, 0) ELSE Null
      [] c.k = "num" -> Dt(0, c.n \div c.d)
      [] OTHER       -> Null

\* tmp_dates > datetime.now() on one converted cell
InFuture(c) == c.k = "dt" /\ c.n > NowDay

\* pd.to_numeric(value, errors='coerce') > current_year + 1 on one cell;
\* a timestamp converts to its nanosecond count
FutureYear(c) ==
    CASE c.k = "num" -> c.n > (current_year + 1) * c.d
      [] c.k = "dt"  -> c.n > 0 \/ c.d > current_year + 1
      [] OTHER       -> FALSE

\* -------------------------------------------------------- outlier detector
IsNumber(df, col) == df.dtype[col] = "float64"

\* the fences themselves counted as outside
detect_outliers_iqr_inclusive(df, column) ==
    IF ~IsNumber(df, column)
    THEN [count |-> 0, mask |-> [i \in 1..len(df) |-> FALSE]]
    ELSE LET xs   == NonNull(df, column)
             Q1   == quantile(xs, 1)
             Q3   == quantile(xs, 3)
             IQR  == RatSub(Q3, Q1)
             lower_bound == RatSub(Q1, RatMul(Rat(3, 2), IQR))
             upper_bound == RatAdd(Q3, RatMul(Rat(3, 2), IQR))
             outliers == [i \in 1..len(df) |->
                            LET c == df.rows[i][column]
                            IN  /\ xs # <<>>
                                /\ ~isna(c)
                                /\ (~RatLess(lower_bound, c) \/ ~RatLess(c, upper_bound))]
         IN  [count |-> Cardinality({i \in 1..len(df) : outliers[i]}),
              mask  |-> outliers]

detect_outliers_iqr(df, column) ==
    IF ~IsNumber(df, column)
    THEN [count |-> 0, mask |-> [i \in 1..len(df) |-> FALSE]]
    ELSE LET xs   == NonNull(df, column)
             Q1   == quantile(xs, 1)
             Q3   == quantile(xs, 3)
             IQR  == RatSub(Q3, Q1)
             lower_bound == RatSub(Q1, RatMul(Rat(3, 2), IQR))
             upper_bound == RatAdd(Q3, RatMul(Rat(3, 2), IQR))
             outliers == [i \in 1..len(df) |->
                            LET c == df.rows[i][column]
                            IN  /\ xs # <<>>
                                /\ ~isna(c)
                                /\ (RatLess(c, lower_bound) \/ RatLess(upper_bound, c))]
         IN  [count |-> Cardinality({i \in 1..len(df) : outliers[i]}),
              mask  |-> outliers]

\* ------------------------------------------------------------ audit engine
pk_col == "Report Number"

key_fields == {"Report Number", "Crash Date/Time", "Vehicle ID", "Person ID"}

\* the score run_audit starts from
FullScore == 100

\* the score of the report for the empty table
EmptyScoreSentinel == 0 - 1

EmptyScore == 0

CriticalPenalty == 10

WarningPenalty == 5

FutureDatePenalty == 10

FutureYearPenalty == 5

Finding(tag, col, x, y) == [tag |-> tag, col |-> col, x |-> x, y |-> y]

\* f"{value:.2f}" of the percentage 100 * k / n, in hundredths
Pct2(k, n) == (20000 * k + n) \div (2 * n)

\* missing_pct > t for missing_pct = df[col].isnull().mean() * 100
MissingAbove(df, col, t) == 100 * isna_sum(df, col) > t * len(df)

\* the status the profile loop gives a column
Status(df, col) ==
    IF MissingAbove(df, col, 10) THEN "Critical"
    ELSE IF MissingAbove(df, col, 1) THEN "Warning"
    ELSE IF MissingAbove(df, col, 0) THEN "Warning"
    ELSE "Valid"

\* a Warning finding for every key field with any missing value
CompletenessFindingOneBand(df, col) ==
    IF col \notin key_fields \/ ~MissingAbove(df, col, 0) THEN <<>>
    ELSE <<Finding(IF MissingAbove(df, col, 10) THEN "Critical" ELSE "Warning",
                   col, Pct2(isna_sum(df, col), len(df)), 0)>>

\* the finding the profile loop appends for a column (none: <<>>)
CompletenessFinding(df, col) ==
    IF MissingAbove(df, col, 10)
    THEN IF col \in key_fields
         THEN <<Finding("Critical", col, Pct2(isna_sum(df, col), len(df)), 0)>>
         ELSE <<>>
    ELSE IF MissingAbove(df, col, 1)
    THEN IF col \in key_fields
         THEN <<Finding("Warning", col, Pct2(isna_sum(df, col), len(df)), 0)>>
         ELSE <<>>
    ELSE <<>>

\* the same deduction for Critical as for Warning
CompletenessPenaltyFlat(df, col) ==
    IF col \in key_fields /\ MissingAbove(df, col, 1) THEN WarningPenalty ELSE 0

\* what the profile loop subtracts from the score for a column
CompletenessPenalty(df, col) ==
    IF MissingAbove(df, col, 10)
    THEN IF col \in key_fields THEN CriticalPenalty ELSE 0
    ELSE IF MissingAbove(df, col, 1)
    THEN IF col \in key_fields THEN WarningPenalty ELSE 0
    ELSE 0

\* df[col].nunique(): distinct non-null values
nunique(df, col) == Cardinality({df.rows[i][col] : i \in 1..len(df)} \ {Null})

\* one row of the completeness table
ColumnProfile(df, col) ==
    [name     |-> col,
     type     |-> df.dtype[col],
     missing  |-> Pct2(isna_sum(df, col), len(df)),
     unique   |-> nunique(df, col),
     outliers |-> IF IsNumber(df, col) THEN detect_outliers_iqr(df, col).count ELSE 0,
     status   |-> Status(df, col)]

RECURSIVE ConcatAll(_)
ConcatAll(ss) == IF ss = <<>> THEN <<>> ELSE Head(ss) \o ConcatAll(Tail(ss))

\* df.duplicated(subset=[col]): a row repeats the value of an earlier row
\* (missing values count as equal to each other)
duplicated(df, subset, i) ==
    \E j \in 1..(i - 1) : \A c \in subset : df.rows[j][c] = df.rows[i][c]

\* every row whose identifier occurs more than once counted, the first too
duplicate_count_all_copies(df) ==
    Cardinality({i \in 1..len(df) :
                   \E j \in 1..len(df) : j # i /\ df.rows[j][pk_col] = df.rows[i][pk_col]})

duplicate_count(df) == Cardinality({i \in 1..len(df) : duplicated(df, {pk_col}, i)})

\* the penalty computed from the rate itself, not from twice the rate
ConsistencyPenaltyNoFactor(dups, n_rows) ==
    IF dups > 0 THEN Min(20, (100 * dups) \div n_rows) ELSE 0

\* min(20, int(duplicate_rate * 2)), duplicate_rate = duplicate_count / n_rows * 100
ConsistencyPenalty(dups, n_rows) ==
    IF dups > 0 THEN Min(20, (200 * dups) \div n_rows) ELSE 0

future_dates(df) ==
    Cardinality({i \in 1..len(df) : InFuture(to_datetime(df.rows[i][CD]))})

future_vehicles(df) ==
    Cardinality({i \in 1..len(df) : FutureYear(df.rows[i][VY])})

\* tmp_dates.max() over the parsed, non-null timestamps (Null: there are none)
latest_date(df) ==
    LET ds == SelectSeq([i \in 1..len(df) |-> to_datetime(df.rows[i][CD])],
                        LAMBDA c : ~isna(c))
    IN  IF ds = <<>> THEN Null ELSE Kth(ds, Len(ds))

Clamp(x) == Max(0, Min(100, x))

\* an empty-table report that also carries a timeliness finding
EmptyReportWithTimeliness ==
    [health_score |-> EmptyScore,
     summary      |-> <<Finding("Empty", "", 0, 0), Finding("Stale", CD, 0, 0)>>,
     column_stats |-> <<>>]

\* what run_audit returns for a table without rows
EmptyReport ==
    [health_score |-> EmptyScore,
     summary      |-> <<Finding("Empty", "", 0, 0)>>,
     column_stats |-> <<>>]

run_audit(df) ==
    IF len(df) = 0
    THEN EmptyReport
    ELSE
    LET n_rows == len(df)
        dups   == IF HasCol(df, pk_col) THEN duplicate_count(df) ELSE 0
        fd     == IF HasCol(df, CD) THEN future_dates(df) ELSE 0
        fv     == IF HasCol(df, VY) THEN future_vehicles(df) ELSE 0
        latest == IF HasCol(df, CD) THEN latest_date(df) ELSE Null
        delta  == NowDay - latest.n
        score  == FullScore
                  - SumSeq([i \in 1..Len(df.cols) |-> CompletenessPenalty(df, df.cols[i])])
                  - ConsistencyPenalty(dups, n_rows)
                  - (IF fd > 0 THEN FutureDatePenalty ELSE 0)
                  - (IF fv > 0 THEN FutureYearPenalty ELSE 0)
    IN  [health_score |-> Clamp(score),
         summary |->
             ConcatAll([i \in 1..Len(df.cols) |-> CompletenessFinding(df, df.cols[i])])
             \o (IF dups > 0
                 THEN <<Finding("Duplicates", pk_col, dups, Pct2(dups, n_rows))>>
                 ELSE <<>>)
             \o (IF fd > 0 THEN <<Finding("FutureDates", CD, fd, 0)>> ELSE <<>>)
             \o (IF fv > 0 THEN <<Finding("FutureVehicles", VY, fv, 0)>> ELSE <<>>)
             \o (IF ~isna(latest)
                 THEN <<Finding(IF delta < 180 THEN "Fresh" ELSE "Stale", CD, latest.n, delta)>>
                 ELSE <<>>),
         completeness_table |-> [i \in 1..Len(df.cols) |-> ColumnProfile(df, df.cols[i])],
         consistency |->
             IF HasCol(df, pk_col)
             THEN <<[duplicate_count |-> dups, duplicate_rate |-> Rat(100 * dups, n_rows)]>>
             ELSE <<>>,
         outliers |->
             SelectSeq([i \in 1..Len(df.cols) |->
                          [col   |-> df.cols[i],
                           count |-> ColumnProfile(df, df.cols[i]).outliers]],
                       LAMBDA o : o.count > 0),
         timeliness |->
             IF ~isna(latest) THEN <<[latest |-> latest, delta |-> delta]>> ELSE <<>>,
         reconciliation |-> [rows |-> n_rows, columns |-> Len(df.cols)]]

\* ----------------------------------------------------- cleaning operations
\* The outcome of one call.  arg is the caller's table object as the call
\* leaves it; same tells whether the returned table is that very object.
Raise(exc, arg) == [status |-> "raise", exc |-> exc, arg |-> arg]

Return(arg, df, same, details, rows_affected) ==
    [status |-> "ok", arg |-> arg, df |-> df, same |-> same,
     details |-> details, rows_affected |-> rows_affected]

Detail(msg, col, x, y) == [msg |-> msg, col |-> col, x |-> x, y |-> y]

\* the rows of df whose index is in keep, in order
FilterRows(df, keep) ==
    LET kept == SelectSeq([i \in 1..len(df) |-> i], LAMBDA i : i \in keep)
    IN  [df EXCEPT !.rows = [k \in 1..Len(kept) |-> df.rows[kept[k]]]]

\* df.dropna(subset=cols)
dropna(df, cols) ==
    FilterRows(df, {i \in 1..len(df) : \A c \in cols : ~isna(df.rows[i][c])})

\* the last row of every key is kept instead of the first
drop_duplicates_keep_last(df, cols) ==
    FilterRows(df, {i \in 1..len(df) :
                      ~\E j \in (i + 1)..len(df) :
                          \A c \in cols : df.rows[j][c] = df.rows[i][c]})

\* df.drop_duplicates(subset=cols): the first row of every key is kept
drop_duplicates(df, cols) ==
    FilterRows(df, {i \in 1..len(df) : ~duplicated(df, cols, i)})

\* df[column] = df[column].fillna(val); filling with NaN changes nothing
fillna(df, column, val) ==
    [df EXCEPT !.rows = [i \in 1..len(df) |->
        IF isna(df.rows[i][column])
        THEN [df.rows[i] EXCEPT ![column] = val]
        ELSE df.rows[i]]]

RECURSIVE RatSum(_)
RatSum(xs) == IF xs = <<>> THEN Num(0) ELSE RatAdd(Head(xs), RatSum(Tail(xs)))

\* the average of two cells of one kind
Midpoint(a, b) ==
    IF a.k = "num" THEN RatMul(Rat(1, 2), RatAdd(a, b))
    ELSE Dt((a.n + b.n) \div 2, (a.d + b.d) \div 2)

\* the mean taken over every cell, missing ones included
MeanOverAllRows(df, column) ==
    LET xs == NonNull(df, column)
    IN  IF xs = <<>> THEN Null
        ELSE IF xs[1].k = "num"
        THEN RatMul(Rat(1, len(df)), RatSum(xs))
        ELSE Dt(SumSeq([i \in 1..Len(xs) |-> xs[i].n]) \div len(df),
                SumSeq([i \in 1..Len(xs) |-> xs[i].d]) \div len(df))

\* df[column].mean(): the mean of the non-null values, NaN when there are none
SeriesMean(df, column) ==
    LET xs == NonNull(df, column)
    IN  IF xs = <<>> THEN Null
        ELSE IF xs[1].k = "num"
        THEN RatMul(Rat(1, Len(xs)), RatSum(xs))
        ELSE Dt(SumSeq([i \in 1..Len(xs) |-> xs[i].n]) \div Len(xs),
                SumSeq([i \in 1..Len(xs) |-> xs[i].d]) \div Len(xs))

\* df[column].median(): the middle of the sorted non-null values
SeriesMedian(df, column) ==
    LET xs == NonNull(df, column)
        m  == Len(xs)
    IN  IF xs = <<>> THEN Null
        ELSE IF m % 2 = 1 THEN Kth(xs, (m + 1) \div 2)
        ELSE Midpoint(Kth(xs, m \div 2), Kth(xs, m \div 2 + 1))

\* df[column].mode()[0]: the smallest of the most frequent non-null values
SeriesMode(df, column) ==
    LET xs    == NonNull(df, column)
        F(c)  == Cardinality({j \in 1..Len(xs) : xs[j] = c})
        vals  == {xs[i] : i \in 1..Len(xs)}
        top   == {c \in vals : \A e \in vals : F(e) <= F(c)}
    IN  CHOOSE c \in top : \A e \in top : ~CellLess(e, c)

Strategies == {"Mean", "Median", "Mode", "Drop"}

\* the branches of impute_values on the strategy, with rows_affected nulls
ImputeByStrategy(df, column, strategy, rows_affected) ==
    LET textual == \E i \in 1..len(df) : df.rows[i][column].k \in {"text", "str"}
    IN  CASE strategy = "Drop" ->
               Return(df, dropna(df, {column}), FALSE,
                      Detail("Dropped", column, rows_affected, 0), rows_affected)
          [] strategy = "Mean" ->
               IF textual THEN Raise("TypeError", df)
               ELSE LET val == SeriesMean(df, column)
                        new == fillna(df, column, val)
                    IN  Return(new, new, TRUE,
                               Detail("Imputed Mean", column, val, 0), rows_affected)
          [] strategy = "Median" ->
               IF textual THEN Raise("TypeError", df)
               ELSE LET val == SeriesMedian(df, column)
                        new == fillna(df, column, val)
                    IN  Return(new, new, TRUE,
                               Detail("Imputed Median", column, val, 0), rows_affected)
          [] strategy = "Mode" ->
               IF NonNull(df, column) = <<>> THEN Raise("KeyError", df)
               ELSE LET val == SeriesMode(df, column)
                        new == fillna(df, column, val)
                    IN  Return(new, new, TRUE,
                               Detail("Imputed Mode", column, val, 0), rows_affected)
          [] OTHER -> Raise("UnboundLocalError", df)

\* the strategy applied without looking at the missing count first
impute_values_unchecked(df, column, strategy) ==
    IF ~HasCol(df, column) THEN Raise("KeyError", df)
    ELSE ImputeByStrategy(df, column, strategy, isna_sum(df, column))

impute_values(df, column, strategy) ==
    IF ~HasCol(df, column) THEN Raise("KeyError", df)
    ELSE
    LET rows_affected == isna_sum(df, column)
    IN  IF rows_affected = 0
        THEN Return(df, df, TRUE, Detail("No missing values", column, 0, 0), 0)
        ELSE ImputeByStrategy(df, column, strategy, rows_affected)

\* standardize_dates counting the rows that hold a date afterwards
standardize_dates_counts_valid(df, column) ==
    IF ~HasCol(df, column) THEN Raise("KeyError", df)
    ELSE
    LET initial_nulls == isna_sum(df, column)
        new == [df EXCEPT
                  !.rows  = [i \in 1..len(df) |->
                               [df.rows[i] EXCEPT ![column] = to_datetime(@)]],
                  !.dtype = [@ EXCEPT ![column] = "datetime64[ns]"]]
        final_nulls   == isna_sum(new, column)
        invalid_dates == final_nulls - initial_nulls
    IN  Return(new, new, TRUE,
               Detail("Standardized", column, invalid_dates > 0, invalid_dates),
               len(df) - final_nulls)

standardize_dates(df, column) ==
    IF ~HasCol(df, column) THEN Raise("KeyError", df)
    ELSE
    LET initial_nulls == isna_sum(df, column)
        new == [df EXCEPT
                  !.rows  = [i \in 1..len(df) |->
                               [df.rows[i] EXCEPT ![column] = to_datetime(@)]],
                  !.dtype = [@ EXCEPT ![column] = "datetime64[ns]"]]
        final_nulls   == isna_sum(new, column)
        rows_affected == len(df) - initial_nulls
        invalid_dates == final_nulls - initial_nulls
    IN  Return(new, new, TRUE,
               Detail("Standardized", column, invalid_dates > 0, invalid_dates),
               rows_affected)

\* a column list is a set of column names; None (the default argument) is
\* a value no column list equals
None == {"<None>"}

remove_duplicates(df, subset) ==
    LET cols == IF subset = None THEN ColSet(df) ELSE subset
    IN  IF ~(cols \subseteq ColSet(df)) THEN Raise("KeyError", df)
        ELSE LET new == drop_duplicates(df, cols)
                 rows_affected == len(df) - len(new)
             IN  Return(df, new, FALSE,
                        Detail("Removed duplicates", subset, rows_affected, 0),
                        rows_affected)

drop_missing_values(df, columns) ==
    LET cols == IF columns = None \/ columns = {} THEN ColSet(df) ELSE columns
    IN  IF ~(cols \subseteq ColSet(df)) THEN Raise("KeyError", df)
        ELSE LET new == dropna(df, cols)
                 rows_dropped == len(df) - len(new)
             IN  Return(df, new, FALSE,
                        Detail("Dropped nulls", columns, rows_dropped, 0),
                        rows_dropped)

\* ------------------------------------------------------------ input tables
\* the dtype read_csv gives each modelled column
LoadedDtype(col) == IF col = VY THEN "float64" ELSE "object"

CellValues(col) ==
    CASE col = RN -> {Null, Txt(1), Txt(2)}
      [] col = CD -> {Null, BadStr, DateStr(100), DateStr(300)}
      [] col = VY -> {Null, Num(2020), Num(2030)}

RowValues(cols) ==
    LET S == {cols[i] : i \in 1..Len(cols)}
    IN  {r \in [S -> UNION {CellValues(c) : c \in S}] : \A c \in S : r[c] \in CellValues(c)}

Table(cols, rows) ==
    [cols  |-> cols,
     dtype |-> [c \in {cols[i] : i \in 1..Len(cols)} |-> LoadedDtype(c)],
     rows  |-> rows]

\* every table with the given columns and at most maxn rows
Tables(cols, maxn) ==
    UNION {{Table(cols, rows) : rows \in [1..n -> RowValues(cols)]} : n \in 0..maxn}

\* a large table described by counts: n rows, of which the first a have no
\* report number, the next b + 1 share one report number (b duplicates), the
\* first c have no crash date, and the last holds a future crash date and a
\* future model year when f
GenTable(n, a, b, c, f) ==
    Table(<<RN, CD, VY>>,
          [i \in 1..n |->
             (RN :> (IF i <= a THEN Null
                     ELSE IF b > 0 /\ i <= a + b + 1 THEN Txt(a + 1)
                     ELSE Txt(i)))
             @@ (CD :> (IF i <= c THEN Null
                        ELSE IF f /\ i = n THEN DateStr(300)
                        ELSE DateStr(10)))
             @@ (VY :> (IF f /\ i = n THEN Num(2030) ELSE Num(2020)))])

GenTables ==
    {GenTable(n, a, b, c, f) :
        n \in {50, 100}, a \in {0, 1, 10, 15}, b \in {0, 3, 4, 12},
        c \in {0, 1, 10, 15}, f \in BOOLEAN}

\* a crash-date column of 12 rows: 8 dates, 2 malformed strings, 2 missing
DateScenario ==
    Table(<<CD>>,
          [i \in 1..12 |->
             (CD :> (IF i <= 8 THEN DateStr(100) ELSE IF i <= 10 THEN BadStr ELSE Null))])

\* a model-year column holding the given cells
YearTable(cells) == Table(<<VY>>, [i \in 1..Len(cells) |-> (VY :> cells[i])])

\* model-year columns with a value far above, far below, exactly on and just
\* beyond a fence, with quartiles that fall between two values, with a
\* missing value, and with text
OutlierScenarios ==
    {YearTable(<<Num(1), Num(2), Num(3), Num(100)>>),
     YearTable(<<Num(1), Num(50), Num(51), Num(52), Num(53)>>),
     YearTable(<<Num(13), Num(1), Num(2), Num(3), Num(4), Num(5), Num(6), Num(7), Num(8)>>),
     YearTable(<<Num(1), Num(2), Num(3), Num(4), Num(14), Num(5), Num(6), Num(7), Num(8)>>),
     YearTable(<<Num(4), Null, Num(4), Num(0), Num(4), Num(4)>>),
     [YearTable(<<Txt(1), Num(1), Num(2), Num(3), Num(100)>>) EXCEPT !.dtype[VY] = "object"]}

ScenarioTables == {DateScenario} \cup OutlierScenarios

\* the tables the functions are called on
FnTables ==
    Tables(<<VY>>, MaxRows) \cup Tables(<<RN>>, MaxRows) \cup Tables(<<CD>>, MaxRows)
    \cup Tables(<<RN, VY>>, MaxRows) \cup Tables(<<RN, CD, VY>>, MaxRows - 2)
    \cup GenTables \cup ScenarioTables

\* the tables the page loads: load_data returned a non-empty table
AppTables ==
    {t \in Tables(<<RN, VY>>, MaxRows) \cup Tables(<<RN, CD>>, MaxRows - 1) : len(t) > 0}

\* ------------------------------------------------------------------- state
VARIABLES
    df,            \* the table object a caller passes to a function
    call,          \* the call made on it: function, arguments, table before
    out,           \* what the call returned or raised
    report,        \* the report of the audit call
    raw_df,        \* app.py: the loaded table
    df_cleaned,    \* app.py: st.session_state.df_cleaned
    cleaning_log,  \* app.py: st.session_state.cleaning_log
    last           \* app.py: the button handled last and how the run ended

vars == <<df, call, out, report, raw_df, df_cleaned, cleaning_log, last>>

fnvars == <<df, call, out, report>>

appvars == <<raw_df, df_cleaned, cleaning_log, last>>

NoTable == Table(<<>>, <<>>)

NoCall == [op |-> "none"]

NoOut == [status |-> "none"]

NoColumn == "No Such Column"

\* ---------------------------------------------------- calls of the functions
InitFn ==
    /\ df \in FnTables
    /\ call = NoCall
    /\ out = NoOut
    /\ report = NoOut
    /\ raw_df = NoTable
    /\ df_cleaned = NoTable
    /\ cleaning_log = <<>>
    /\ last = [handler |-> "none", exc |-> "none", changed |-> FALSE, column |-> ""]

\* an audit that converts the crash dates of the caller's table in place
Call_run_audit_in_place ==
    /\ call = NoCall
    /\ call' = [op |-> "run_audit", before |-> df]
    /\ report' = run_audit(df)
    /\ df' = IF HasCol(df, CD)
             THEN [df EXCEPT !.rows = [i \in 1..len(df) |->
                                         [df.rows[i] EXCEPT ![CD] = to_datetime(@)]]]
             ELSE df
    /\ UNCHANGED out
    /\ UNCHANGED appvars

\* run_audit only reads df: tmp_dates, vehicle_years and the outlier mask are
\* new objects
Call_run_audit ==
    /\ call = NoCall
    /\ call' = [op |-> "run_audit", before |-> df]
    /\ report' = run_audit(df)
    /\ UNCHANGED <<df, out>>
    /\ UNCHANGED appvars

\* the caller audits the table object again, at the same instant
Call_run_audit_again ==
    /\ call.op = "run_audit"
    /\ call' = [op |-> "run_audit_again", before |-> call.before, first |-> report]
    /\ report' = run_audit(df)
    /\ UNCHANGED <<df, out>>
    /\ UNCHANGED appvars

Call_impute_values ==
    /\ call = NoCall
    /\ \E column \in ColSet(df) \cup {NoColumn}, strategy \in Strategies \cup {"Max"} :
         /\ call' = [op |-> "impute_values", column |-> column,
                     strategy |-> strategy, before |-> df]
         /\ out' = impute_values(df, column, strategy)
         /\ df' = out'.arg
    /\ UNCHANGED report
    /\ UNCHANGED appvars

Call_standardize_dates ==
    /\ call = NoCall
    /\ \E column \in ColSet(df) \cup {NoColumn} :
         /\ call' = [op |-> "standardize_dates", column |-> column, before |-> df]
         /\ out' = standardize_dates(df, column)
         /\ df' = out'.arg
    /\ UNCHANGED report
    /\ UNCHANGED appvars

\* df[column] raises KeyError for a column the table lacks
Call_detect_outliers_iqr ==
    /\ call = NoCall
    /\ \E column \in ColSet(df) \cup {NoColumn} :
         /\ call' = [op |-> "detect_outliers_iqr", column |-> column, before |-> df]
         /\ out' = IF ~HasCol(df, column) THEN Raise("KeyError", df)
                   ELSE LET r == detect_outliers_iqr(df, column)
                        IN  [status |-> "ok", count |-> r.count, mask |-> r.mask]
    /\ UNCHANGED <<df, report>>
    /\ UNCHANGED appvars

ColumnLists(t) == {None} \cup {{c} : c \in ColSet(t) \cup {NoColumn}} \cup {ColSet(t)}

Call_remove_duplicates ==
    /\ call = NoCall
    /\ \E subset \in ColumnLists(df) :
         /\ call' = [op |-> "remove_duplicates", columns |-> subset, before |-> df]
         /\ out' = remove_duplicates(df, subset)
         /\ df' = out'.arg
    /\ UNCHANGED report
    /\ UNCHANGED appvars

Call_drop_missing_values ==
    /\ call = NoCall
    /\ \E columns \in ColumnLists(df) \cup {{}} :
         /\ call' = [op |-> "drop_missing_values", columns |-> columns, before |-> df]
         /\ out' = drop_missing_values(df, columns)
         /\ df' = out'.arg
    /\ UNCHANGED report
    /\ UNCHANGED appvars

NextFn ==
    \/ Call_run_audit
    \/ Call_run_audit_again
    \/ Call_detect_outliers_iqr
    \/ Call_impute_values
    \/ Call_standardize_dates
    \/ Call_remove_duplicates
    \/ Call_drop_missing_values

SpecFn == InitFn /\ [][NextFn]_vars

\* ------------------------------------------------------- Cleaning Lab page
\* app.py imports streamlit, pandas, plotly and the modules, and never
\* datetime: evaluating datetime.now() in a handler raises NameError
datetime_defined == FALSE

\* 'Date' in c or 'Year' in c
date_col_options(t) == {c \in ColSet(t) : c \in {CD, VY}}

\* changed: the run replaced the working table by a different one;
\* column: the column (or column list) the handler's call was given
Ended(handler, exc, changed, column) ==
    [handler |-> handler, exc |-> exc, changed |-> changed, column |-> column]

Init ==
    /\ raw_df \in AppTables
    /\ df_cleaned = raw_df
    /\ cleaning_log = <<>>
    /\ last = Ended("none", "none", FALSE, "")
    /\ df = NoTable
    /\ call = NoCall
    /\ out = NoOut
    /\ report = NoOut

\* st.session_state.cleaning_log.append({...}): the entry is built first,
\* and building it needs datetime.now()
LogStep(handler, operation, r) ==
    IF datetime_defined
    THEN /\ cleaning_log' = Append(cleaning_log,
                                   [Timestamp |-> NowDay, Operation |-> operation,
                                    Details |-> r.details,
                                    RowsAffected |-> r.rows_affected])
         /\ last' = Ended(handler, "none", r.df # df_cleaned, r.details.col)
    ELSE /\ cleaning_log' = cleaning_log
         /\ last' = Ended(handler, "NameError", r.df # df_cleaned, r.details.col)

\* if st.button("Apply Imputation")
ApplyImputation(target_col, strategy) ==
    LET r == impute_values(df_cleaned, target_col, strategy)
    IN  /\ IF r.status = "raise"
           THEN /\ last' = Ended("Apply Imputation", r.exc, FALSE, target_col)
                /\ UNCHANGED <<df_cleaned, cleaning_log>>
           ELSE IF r.rows_affected > 0
           THEN /\ df_cleaned' = r.df
                /\ LogStep("Apply Imputation", "Imputation", r)
           ELSE /\ last' = Ended("Apply Imputation", "none", FALSE, target_col)
                /\ UNCHANGED <<df_cleaned, cleaning_log>>
        /\ UNCHANGED raw_df

\* if st.button("Fix Date Formats")
FixDateFormats(date_col) ==
    LET r == standardize_dates(df_cleaned, date_col)
    IN  /\ df_cleaned' = r.df
        /\ LogStep("Fix Date Formats", "Standardization", r)
        /\ UNCHANGED raw_df

\* if st.button("Remove Duplicate Report Numbers")
RemoveDuplicateReportNumbers ==
    LET r == remove_duplicates(df_cleaned, {RN})
    IN  /\ df_cleaned' = r.df
        /\ LogStep("Remove Duplicates", "Remove Duplicates", r)
        /\ UNCHANGED raw_df

\* the reset that clears the history and leaves the working table
ResetKeepsTable ==
    /\ df_cleaned' = df_cleaned
    /\ cleaning_log' = <<>>
    /\ last' = Ended("Reset All Changes", "none", FALSE, "")
    /\ UNCHANGED raw_df

\* if st.button("Reset All Changes")
ResetAllChanges ==
    /\ df_cleaned' = raw_df
    /\ cleaning_log' = <<>>
    /\ last' = Ended("Reset All Changes", "none", raw_df # df_cleaned, "")
    /\ UNCHANGED raw_df

ImputationClick ==
    /\ \E target_col \in ColSet(df_cleaned), strategy \in Strategies :
         ApplyImputation(target_col, strategy)
    /\ UNCHANGED fnvars

DateClick ==
    /\ \E date_col \in date_col_options(df_cleaned) : FixDateFormats(date_col)
    /\ UNCHANGED fnvars

DuplicatesClick ==
    /\ RemoveDuplicateReportNumbers
    /\ UNCHANGED fnvars

ResetClick ==
    /\ ResetAllChanges
    /\ UNCHANGED fnvars

Next ==
    \/ ImputationClick
    \/ DateClick
    \/ DuplicatesClick
    \/ ResetClick

Spec == Init /\ [][Next]_vars

\* the functions called directly and the functions called by the page
InitAll == InitFn \/ Init

NextAll ==
    \/ (raw_df = NoTable /\ NextFn)
    \/ (raw_df # NoTable /\ Next)

SpecAll == InitAll /\ [][NextAll]_vars

\* ================================================================ properties
Audited == call.op = "run_audit"

Audited1 == Audited /\ len(call.before) > 0

Tagged(r, tag) == {i \in 1..Len(r.summary) : r.summary[i].tag = tag}

TaggedFor(r, tag, col) == {i \in Tagged(r, tag) : r.summary[i].col = col}

\* the null count and the row count of a column of the audited table
Nulls(t, col) == Cardinality({i \in 1..Len(t.rows) : t.rows[i][col].k = "null"})

\* what the findings other than the duplicate finding account for
FindingDeductions(r) ==
    10 * Cardinality(Tagged(r, "Critical")) + 5 * Cardinality(Tagged(r, "Warning"))
    + (IF Tagged(r, "FutureDates") # {} THEN 10 ELSE 0)
    + (IF Tagged(r, "FutureVehicles") # {} THEN 5 ELSE 0)

\* the duplicates of the report, 0 when the report has no consistency metrics
ReportedDuplicates(r) ==
    IF r.consistency = <<>> THEN 0 ELSE r.consistency[1].duplicate_count

DuplicateDeduction(r, n) ==
    LET p == (200 * ReportedDuplicates(r)) \div n IN IF p > 20 THEN 20 ELSE p

ScoreAddsUp(r, n) ==
    r.health_score = 100 - FindingDeductions(r) - DuplicateDeduction(r, n)

KeyColumns(t) == ColSet(t) \cap key_fields

ProfileOf(r, col) ==
    r.completeness_table[CHOOSE i \in 1..Len(r.completeness_table) :
                            r.completeness_table[i].name = col]

\* C1: the health score of every audit report, of the empty table too, is
\* an integer from 0 to 100.
C1_ScoreInRange == Audited => report.health_score \in 0..100

\* a table with missing key fields, duplicates, a future crash date and a
\* future model year was audited: every deduction applied
C1_Witness ==
    /\ Audited
    /\ report.health_score = 45
    /\ \A tag \in {"Critical", "Duplicates", "FutureDates", "FutureVehicles"} :
          Tagged(report, tag) # {}

\* C2 as stated: every key field whose status is Warning costs 5 points and
\* has exactly one Warning finding.
C2_AsClaimed ==
    Audited1 =>
        /\ \A col \in KeyColumns(call.before) :
              ProfileOf(report, col).status = "Warning"
                  => Cardinality(TaggedFor(report, "Warning", col)) = 1
        /\ ScoreAddsUp(report, len(call.before))

\* C2: a key field missing in more than 1% and at most 10% of the rows has
\* status Warning, exactly one Warning finding and costs 5 points; a key field
\* missing in at most 1% of the rows (and in some) has status Warning, no
\* finding and costs nothing.
C2_WarningBand ==
    Audited1 =>
        LET t == call.before
            n == len(t)
        IN  /\ \A col \in KeyColumns(t) :
                  /\ (100 * Nulls(t, col) > n /\ 100 * Nulls(t, col) <= 10 * n)
                        => /\ ProfileOf(report, col).status = "Warning"
                           /\ Cardinality(TaggedFor(report, "Warning", col)) = 1
                  /\ (Nulls(t, col) > 0 /\ 100 * Nulls(t, col) <= n)
                        => /\ ProfileOf(report, col).status = "Warning"
                           /\ TaggedFor(report, "Warning", col) = {}
                           /\ TaggedFor(report, "Critical", col) = {}
            /\ ScoreAddsUp(report, n)

\* one key field is missing in 2% of 50 rows and nothing else is wrong: 95
C2_Witness ==
    /\ Audited1
    /\ len(call.before) = 50
    /\ Nulls(call.before, RN) = 1
    /\ Cardinality(Tagged(report, "Warning")) = 1
    /\ report.health_score = 95

\* C3: a key field missing in more than 10% of the rows has status Critical,
\* exactly one Critical finding and costs 10 points, so the score is at most 90.
C3_CriticalKeyField ==
    Audited1 =>
        LET t == call.before
            n == len(t)
        IN  /\ \A col \in KeyColumns(t) :
                  100 * Nulls(t, col) > 10 * n
                      => /\ ProfileOf(report, col).status = "Critical"
                         /\ Cardinality(TaggedFor(report, "Critical", col)) = 1
                         /\ report.health_score <= 90
            /\ ScoreAddsUp(report, n)

\* 100 rows, 15 of them without a crash date, nothing else wrong: 90
C3_Witness ==
    /\ Audited1
    /\ len(call.before) = 100
    /\ Nulls(call.before, CD) = 15
    /\ ProfileOf(report, CD).status = "Critical"
    /\ report.health_score = 90

\* rows minus distinct report numbers (the missing marker is one value)
Repeats(t) == len(t) - Cardinality({t.rows[i][RN] : i \in 1..len(t)})

\* C10: when the table has a Report Number column, the report's duplicate
\* count is the number of repeated report numbers, its rate is
\* duplicates / rows * 100, the score loses min(20, floor(rate * 2)), and the
\* duplicate finding is present exactly when there are duplicates.
C10_DuplicatePenalty ==
    (Audited1 /\ HasCol(call.before, RN)) =>
        LET t == call.before
            n == len(t)
            D == Repeats(t)
        IN  /\ Len(report.consistency) = 1
            /\ report.consistency[1].duplicate_count = D
            /\ report.consistency[1].duplicate_rate.n * n
                  = 100 * D * report.consistency[1].duplicate_rate.d
            /\ report.health_score
                  = 100 - FindingDeductions(report)
                        - (IF (200 * D) \div n > 20 THEN 20 ELSE (200 * D) \div n)
            /\ (Tagged(report, "Duplicates") # {}) <=> (D > 0)

\* 3 duplicates among 50 rows: rate 6.00, penalty 12
C10_Witness ==
    /\ Audited1
    /\ len(call.before) = 50
    /\ Repeats(call.before) = 3
    /\ \E i \in Tagged(report, "Duplicates") :
          report.summary[i].x = 3 /\ report.summary[i].y = 600
    /\ report.health_score = 88

\* C4: a step of the Cleaning Lab leaves the history as it is, appends one
\* entry to it, or (Reset) empties it; and a Reset leaves the working table
\* equal to the loaded table.
C4_HistoryStep ==
    /\ \/ cleaning_log' = cleaning_log
       \/ /\ Len(cleaning_log') = Len(cleaning_log) + 1
          /\ SubSeq(cleaning_log', 1, Len(cleaning_log)) = cleaning_log
          /\ last'.handler # "Reset All Changes"
       \/ /\ cleaning_log' = <<>>
          /\ last'.handler = "Reset All Changes"
    /\ last'.handler = "Reset All Changes"
          => (df_cleaned' = raw_df /\ raw_df' = raw_df /\ cleaning_log' = <<>>)

C4_AppendOnlyHistory == [][C4_HistoryStep]_vars

\* a Reset has just undone cleaning steps that had changed the working table
C4_Witness ==
    /\ last.handler = "Reset All Changes"
    /\ last.changed
    /\ df_cleaned = raw_df
    /\ cleaning_log = <<>>

CleaningOps ==
    {"impute_values", "standardize_dates", "remove_duplicates", "drop_missing_values"}

Returned(op) == call.op = op /\ out.status = "ok"

\* the rows of the table before the call that the returned table lacks
RowsRemoved == len(call.before) - len(out.df)

\* the cells of the column that were missing before and hold a value after
NullCellsChanged(col) ==
    Cardinality({i \in 1..len(call.before) :
                    /\ call.before.rows[i][col].k = "null"
                    /\ out.df.rows[i][col].k # "null"})

\* C5 as stated: the rows-affected a cleaning operation reports is the number
\* of rows it removed (drop_missing_values, remove_duplicates, Drop) or the
\* number of missing cells it filled (Mode; Mean and Median on a numeric
\* column), also when every cell of the column is missing.
C5_RowsAffectedIsActual ==
    /\ (Returned("remove_duplicates") \/ Returned("drop_missing_values"))
          => out.rows_affected = RowsRemoved
    /\ Returned("impute_values") =>
          IF call.strategy = "Drop"
          THEN out.rows_affected = RowsRemoved
          ELSE (call.strategy \in {"Mean", "Median"}
                   => call.before.dtype[call.column] = "float64")
               => out.rows_affected = NullCellsChanged(call.column)

\* C6 as stated: after a cleaning call the table object it was given holds the
\* rows and values it held before, and a result that differs from it is
\* another object.
C6_InputNotMutated ==
    call.op \in CleaningOps =>
        /\ df.rows = call.before.rows
        /\ (out.status = "ok" /\ out.df.rows # call.before.rows) => ~out.same

\* C7 as stated: a call with a strategy outside the four, or with a column the
\* table lacks, raises and returns nothing.
C7_BadParameterRaises ==
    /\ call.op \in {"impute_values", "standardize_dates"}
          => (~HasCol(call.before, call.column) => out.status = "raise")
    /\ call.op \in {"remove_duplicates", "drop_missing_values"}
          => ((call.columns # None /\ ~(call.columns \subseteq ColSet(call.before)))
                 => out.status = "raise")
    /\ call.op = "impute_values"
          => (call.strategy \notin {"Mean", "Median", "Mode", "Drop"}
                 => out.status = "raise")

\* Mean imputation was called on a numeric column
MeanCall ==
    /\ call.op = "impute_values"
    /\ call.strategy = "Mean"
    /\ HasCol(call.before, call.column)
    /\ call.before.dtype[call.column] = "float64"

\* the cell is total / count, for integer total and count
IsQuotient(c, total, count) == c.k = "num" /\ c.n * count = total * c.d

MeanFilled(t, col) ==
    LET present == {i \in 1..len(t) : t.rows[i][col].k # "null"}
        F[i \in 0..len(t)] ==
            IF i = 0 THEN 0
            ELSE F[i - 1] + (IF i \in present THEN t.rows[i][col].n ELSE 0)
    IN  /\ out.status = "ok"
        /\ len(out.df) = len(t)
        /\ \A i \in 1..len(t) :
              IF i \in present
              THEN out.df.rows[i][col] = t.rows[i][col]
              ELSE IsQuotient(out.df.rows[i][col], F[len(t)], Cardinality(present))

\* C8 as stated: after Mean imputation of any numeric column the column has
\* no missing cell, every cell that was missing holds the mean of the cells
\* that were not, and those are unchanged.
C8_AsClaimed == MeanCall => MeanFilled(call.before, call.column)

\* C8: the same for a numeric column with at least one non-missing cell.
C8_MeanImputation ==
    (MeanCall /\ Nulls(call.before, call.column) < len(call.before))
        => MeanFilled(call.before, call.column)

\* 2020, 2030 and a missing cell: the missing cell became 2025
C8_Witness ==
    /\ call.op = "impute_values"
    /\ call.strategy = "Mean"
    /\ call.column = VY
    /\ out.status = "ok"
    /\ out.rows_affected = 1
    /\ \E i, j, m \in 1..len(call.before) :
          /\ call.before.rows[i][VY] = Num(2020)
          /\ call.before.rows[j][VY] = Num(2030)
          /\ call.before.rows[m][VY] = Null
          /\ out.df.rows[m][VY] = Num(2025)

\* C9 as stated: a call with well-typed parameters returns: the audit always,
\* a cleaning operation on columns the table has, imputation with one of the
\* four strategies (Mean and Median on a numeric column) whatever the cells.
C9_RunsToCompletion ==
    /\ call.op \in {"standardize_dates"}
          => (HasCol(call.before, call.column) => out.status = "ok")
    /\ call.op \in {"remove_duplicates", "drop_missing_values"}
          => ((call.columns = None \/ call.columns \subseteq ColSet(call.before))
                 => out.status = "ok")
    /\ call.op = "impute_values"
          => ((/\ HasCol(call.before, call.column)
               /\ call.strategy \in {"Mean", "Median", "Mode", "Drop"}
               /\ call.strategy \in {"Mean", "Median"}
                     => call.before.dtype[call.column] = "float64")
                 => out.status = "ok")
    /\ Audited => "health_score" \in DOMAIN report

\* the key of row i of table t over the column list of the call
KeyOf(t, cols, i) == [c \in cols |-> t.rows[i][c]]

\* the rows that are the first to carry their key
FirstOfKey(t, cols) ==
    {i \in 1..len(t) : \A j \in 1..(i - 1) : KeyOf(t, cols, j) # KeyOf(t, cols, i)}

\* the k-th smallest member of a set of row numbers
NthOf(S, k) == CHOOSE i \in S : Cardinality({j \in S : j <= i}) = k

DedupCall == Returned("remove_duplicates")

\* the columns a call's column list stands for
CallCols == IF call.columns = None THEN ColSet(call.before) ELSE call.columns

\* C11: remove_duplicates returns the first row of every distinct key, in the
\* order of the table, reports the number of rows it removed, and applied
\* again to its result with the same columns removes nothing and reports 0.
C11_FirstOccurrencesKept ==
    DedupCall =>
        LET t     == call.before
            first == FirstOfKey(t, CallCols)
            again == remove_duplicates(out.df, call.columns)
        IN  /\ len(out.df) = Cardinality(first)
            /\ \A k \in 1..len(out.df) : out.df.rows[k] = t.rows[NthOf(first, k)]
            /\ out.rows_affected = len(t) - len(out.df)
            /\ again.status = "ok"
            /\ again.rows_affected = 0
            /\ again.df.rows = out.df.rows

\* two rows share a report number and differ in the model year: the one that
\* came first stayed
C11_Witness ==
    /\ DedupCall
    /\ call.columns = {RN}
    /\ HasCol(call.before, VY)
    /\ out.rows_affected = 1
    /\ \E i, j \in 1..len(call.before) :
          /\ i < j
          /\ call.before.rows[i][RN] = call.before.rows[j][RN]
          /\ call.before.rows[i][VY] # call.before.rows[j][VY]
          /\ \E k \in 1..len(out.df) : out.df.rows[k] = call.before.rows[i]
          /\ \A k \in 1..len(out.df) : out.df.rows[k] # call.before.rows[j]

\* impute_values was called on a column the table has, with no missing cell
NoMissingCall ==
    /\ call.op = "impute_values"
    /\ call.strategy \in {"Mean", "Median", "Mode", "Drop"}
    /\ HasCol(call.before, call.column)
    /\ Nulls(call.before, call.column) = 0

C12_Returned ==
    NoMissingCall =>
        /\ out.status = "ok"
        /\ out.same
        /\ out.df = call.before
        /\ df = call.before
        /\ out.rows_affected = 0
        /\ out.details.msg = "No missing values"
        /\ out.details.col = call.column

\* Apply Imputation ran on a column of the working table with no missing cell
C12_LabStep ==
    (/\ last'.handler = "Apply Imputation"
     /\ HasCol(df_cleaned, last'.column)
     /\ Nulls(df_cleaned, last'.column) = 0)
        => /\ df_cleaned' = df_cleaned
           /\ cleaning_log' = cleaning_log
           /\ last'.exc = "none"

\* C12: impute_values on a column without missing values returns the table it
\* was given, rows-affected 0 and the "no missing values" detail, whatever the
\* strategy; in the Cleaning Lab that outcome changes neither the working
\* table nor the history.
C12_NoMissingNoChange == [](C12_Returned) /\ [][C12_LabStep]_vars

\* Apply Imputation has just run on a complete column of a working table that
\* has missing values elsewhere, and nothing changed
C12_Witness ==
    /\ last.handler = "Apply Imputation"
    /\ last.exc = "none"
    /\ ~last.changed
    /\ Nulls(df_cleaned, last.column) = 0
    /\ \E c \in ColSet(df_cleaned) : Nulls(df_cleaned, c) > 0
    /\ cleaning_log = <<>>

\* standardize_dates was called on a column the table has
DatesCall == call.op = "standardize_dates" /\ HasCol(call.before, call.column)

\* C13: standardize_dates reports the row count minus the null count before
\* the call, returns normally whatever the cells hold (a malformed string
\* becomes null), and its detail carries the caution exactly when the column
\* has more nulls afterwards than before, with that difference as its number.
C13_DatesReport ==
    DatesCall =>
        LET t    == call.before
            c    == call.column
            pre  == Nulls(t, c)
            post == Nulls(out.df, c)
        IN  /\ out.status = "ok"
            /\ len(out.df) = len(t)
            /\ out.rows_affected = len(t) - pre
            /\ \A i \in 1..len(t) :
                 /\ t.rows[i][c] = BadStr => out.df.rows[i][c] = Null
                 /\ t.rows[i][c] = Null => out.df.rows[i][c] = Null
            /\ out.details.msg = "Standardized"
            /\ out.details.x <=> post > pre
            /\ out.details.x => out.details.y = post - pre

\* the scenario: 10 non-null values, 2 of them malformed
C13_Witness ==
    /\ DatesCall
    /\ len(call.before) - Nulls(call.before, call.column) = 10
    /\ Cardinality({i \in 1..len(call.before) : call.before.rows[i][call.column] = BadStr}) = 2
    /\ out.status = "ok"
    /\ out.rows_affected = 10
    /\ out.details.x
    /\ out.details.y = 2

AuditedTwice == call.op = "run_audit_again"

\* the profiles of a report name the columns of t, in the order of t
ProfilesInColumnOrder(r, t) ==
    /\ Len(r.completeness_table) = Len(t.cols)
    /\ \A i \in 1..Len(t.cols) : r.completeness_table[i].name = t.cols[i]

AuditedEmpty == Audited /\ len(call.before) = 0

\* C15: the audit of a table without rows returns the minimal report: score
\* 0, exactly one finding (the dataset is empty), an empty profile list, and
\* no result of a completeness, consistency, accuracy or timeliness check.
C15_EmptyTableReport ==
    AuditedEmpty =>
        /\ report.health_score = 0
        /\ Len(report.summary) = 1
        /\ report.summary[1].tag = "Empty"
        /\ report.column_stats = <<>>
        /\ DOMAIN report = {"health_score", "summary", "column_stats"}

\* an empty table that has the key columns was audited
C15_Witness ==
    /\ AuditedEmpty
    /\ {RN, CD, VY} \subseteq ColSet(call.before)
    /\ report.health_score = 0
    /\ Len(report.summary) = 1

OutlierCall == call.op = "detect_outliers_iqr" /\ HasCol(call.before, call.column)

\* the rows of t that hold a value in column c
Valued(t, c) == {i \in 1..len(t) : t.rows[i][c].k # "null"}

\* the k-th smallest of the whole numbers the column holds
RefSorted(t, c, k) ==
    LET v == [i \in Valued(t, c) |-> t.rows[i][c].n]
        i == CHOOSE i \in Valued(t, c) :
               /\ Cardinality({j \in Valued(t, c) : v[j] < v[i]}) < k
               /\ Cardinality({j \in Valued(t, c) : v[j] <= v[i]}) >= k
    IN  v[i]

\* four times the num/4 quantile of the column, by linear interpolation
\* between the two closest ranks
RefQuantile4(t, c, num) ==
    LET m  == Cardinality(Valued(t, c))
        lo == ((m - 1) * num) \div 4
        r  == ((m - 1) * num) % 4
    IN  IF r = 0 THEN 4 * RefSorted(t, c, lo + 1)
        ELSE (4 - r) * RefSorted(t, c, lo + 1) + r * RefSorted(t, c, lo + 2)

\* the rows strictly outside [Q1 - 1.5 IQR, Q3 + 1.5 IQR], with both sides of
\* each comparison multiplied by 8
RefOutliers(t, c) ==
    LET q1 == RefQuantile4(t, c, 1)
        q3 == RefQuantile4(t, c, 3)
    IN  {i \in Valued(t, c) :
           \/ 8 * t.rows[i][c].n < 5 * q1 - 3 * q3
           \/ 8 * t.rows[i][c].n > 5 * q3 - 3 * q1}

\* C16: on a numeric column detect_outliers_iqr counts the non-null values
\* strictly outside [Q1 - 1.5 IQR, Q3 + 1.5 IQR], the quartiles interpolated
\* linearly over the non-null values, and its mask has one entry per row,
\* true exactly at those rows; on a non-numeric column it returns 0 and a
\* mask of one FALSE per row, without raising.
C16_OutlierCount ==
    OutlierCall =>
        LET t == call.before
            c == call.column
        IN  /\ df = t
            /\ out.status = "ok"
            /\ DOMAIN out.mask = 1..len(t)
            /\ t.dtype[c] = "float64" =>
                 /\ \A i \in Valued(t, c) : t.rows[i][c].k = "num" /\ t.rows[i][c].d = 1
                 /\ \A i \in 1..len(t) : out.mask[i] <=> i \in RefOutliers(t, c)
                 /\ out.count = Cardinality(RefOutliers(t, c))
            /\ t.dtype[c] # "float64" =>
                 /\ out.count = 0
                 /\ \A i \in 1..len(t) : ~out.mask[i]

\* a numeric column with a missing value, an outlier and values that are
\* equal to both fences
C16_Witness ==
    /\ OutlierCall
    /\ call.before.dtype[call.column] = "float64"
    /\ Nulls(call.before, call.column) = 1
    /\ out.status = "ok"
    /\ out.count = 1
    /\ \E i \in 1..len(call.before) : out.mask[i] /\ call.before.rows[i][call.column] = Num(0)
    /\ \E i \in 1..len(call.before) : ~out.mask[i] /\ call.before.rows[i][call.column] = Num(4)

\* a history entry of a step that removes rows
RemovesRows(e) ==
    \/ e.Operation = "Remove Duplicates"
    \/ e.Operation = "Imputation" /\ e.Details.msg = "Dropped"

\* the Rows Affected of the history's row-removing entries, added up
RowsLogged ==
    SumSeq([i \in 1..Len(cleaning_log) |->
              IF RemovesRows(cleaning_log[i]) THEN cleaning_log[i].RowsAffected ELSE 0])

\* C17: in the Cleaning Lab the working table never has more rows than the
\* loaded table, and the rows it lacks are as many as the history's Remove
\* Duplicates and Drop-imputation entries say were affected.
C17_RowsAccounted ==
    raw_df # NoTable =>
        /\ len(df_cleaned) <= len(raw_df)
        /\ len(raw_df) - len(df_cleaned) = RowsLogged

\* remove_duplicates on ['Report Number'] returned for a table with rows
DedupByReportNumber ==
    /\ DedupCall
    /\ call.columns = {RN}
    /\ len(call.before) > 0

\* C18: on a non-empty table with a 'Report Number' column the audit reports
\* as many duplicates as remove_duplicates on ['Report Number'] removes, and
\* the audit of the deduplicated table reports no duplicate, no consistency
\* finding and deducts nothing for consistency.
C18_AuditAgreesWithDedup ==
    DedupByReportNumber =>
        LET before == run_audit(call.before)
            after  == run_audit(out.df)
        IN  /\ before.consistency[1].duplicate_count = out.rows_affected
            /\ Tagged(before, "Duplicates") # {} <=> out.rows_affected > 0
            /\ len(out.df) > 0
            /\ after.consistency[1].duplicate_count = 0
            /\ after.consistency[1].duplicate_rate = Rat(0, 1)
            /\ Tagged(after, "Duplicates") = {}
            /\ after.health_score = Max(0, 100 - FindingDeductions(after))

\* twelve repeated report numbers were removed from a table of 100 rows
C18_Witness ==
    /\ DedupByReportNumber
    /\ len(call.before) = 100
    /\ out.rows_affected = 12
    /\ Tagged(run_audit(call.before), "Duplicates") # {}
    /\ run_audit(out.df).health_score > run_audit(call.before).health_score

====
